---- MODULE Spec2Model ----
(***************************************************************************)
(* The analysis handler of geo-sun-scan (src/unnamed/part_000): one        *)
(* request is validated, geocoded through Nominatim, its obstacles are     *)
(* fetched from Overpass and classified, five years of daily climate data  *)
(* from Open-Meteo are reduced to monthly averages, and a response is      *)
(* assembled.  Each await of the handler is one step of the machine.       *)
(***************************************************************************)
EXTENDS Integers, Sequences, FiniteSets, TLC

(***************************************************************************)
(* JavaScript values.  Every value is a record tagged by t, so that the    *)
(* handler's tests (!x, x !== null, x || y) are computed on any of them.   *)
(* A number is an exact fraction n/d in lowest terms with d > 0; a string  *)
(* is the sequence of its characters.                                      *)
(***************************************************************************)
Undefined == [t |-> "undefined"]
Null == [t |-> "null"]
NaN == [t |-> "nan"]

Abs(x) == IF x < 0 THEN -x ELSE x

RECURSIVE Gcd(_, _)
Gcd(a, b) == IF b = 0 THEN a ELSE Gcd(b, a % b)

\* The number n/d (d # 0), in lowest terms with a positive denominator.
Num(n, d) ==
  LET g == Gcd(Abs(n), Abs(d))
      s == IF d < 0 THEN -1 ELSE 1
  IN  [t |-> "num", n |-> (s * n) \div g, d |-> Abs(d) \div g]

Int2Num(i) == Num(i, 1)

Str(chars) == [t |-> "str", s |-> chars]

IsNum(v) == v.t = "num"

\* ToBoolean: undefined, null, NaN, 0 and "" are falsy, everything else truthy.
Truthy(v) ==
  CASE v.t = "undefined" -> FALSE
    [] v.t = "null" -> FALSE
    [] v.t = "nan" -> FALSE
    [] v.t = "num" -> v.n # 0
    [] v.t = "str" -> Len(v.s) > 0
    [] OTHER -> TRUE

\* a || b
Or(a, b) == IF Truthy(a) THEN a ELSE b

\* ToNumber of the values the handler adds and divides.
ToNumber(v) ==
  CASE v.t = "num" -> v
    [] v.t = "null" -> Int2Num(0)
    [] OTHER -> NaN

\* a + b on numbers: NaN as soon as one operand is not a number.
Add(a, b) ==
  LET x == ToNumber(a)
      y == ToNumber(b)
  IN  IF IsNum(x) /\ IsNum(y) THEN Num(x.n * y.d + y.n * x.d, x.d * y.d) ELSE NaN

\* a / k for an integer k > 0.
DivInt(a, k) ==
  LET x == ToNumber(a)
  IN  IF IsNum(x) THEN Num(x.n, x.d * k) ELSE NaN

\* a <= b on numbers.
Leq(a, b) == a.n * b.d <= b.n * a.d

\* JSON.stringify writes NaN as null.
JsonNumber(v) == IF v.t = "nan" THEN Null ELSE v

\* array[index] with a zero-based index: undefined beyond the end.
At(arr, index) == IF index + 1 \in 1..Len(arr) THEN arr[index + 1] ELSE Undefined

(***************************************************************************)
(* parseFloat: an optional sign, digits, an optional fraction; NaN when no *)
(* digit is found.                                                         *)
(***************************************************************************)
Digits == <<"0", "1", "2", "3", "4", "5", "6", "7", "8", "9">>

IsDigit(c) == \E k \in 1..Len(Digits) : Digits[k] = c

DigitVal(c) == (CHOOSE k \in 1..Len(Digits) : Digits[k] = c) - 1

\* The digits of s from position i on: their value, their count as a power of
\* ten, and the position after them.
RECURSIVE ScanDigits(_, _, _, _)
ScanDigits(s, i, acc, pow) ==
  IF i <= Len(s) /\ IsDigit(s[i])
  THEN ScanDigits(s, i + 1, acc * 10 + DigitVal(s[i]), pow * 10)
  ELSE [v |-> acc, pow |-> pow, next |-> i]

ParseFloat(str) ==
  IF str.t # "str" THEN NaN ELSE
  LET s == str.s
      neg == Len(s) >= 1 /\ s[1] = "-"
      start == IF Len(s) >= 1 /\ s[1] \in {"-", "+"} THEN 2 ELSE 1
      ip == ScanDigits(s, start, 0, 1)
      dot == ip.next <= Len(s) /\ s[ip.next] = "."
      fp == IF dot THEN ScanDigits(s, ip.next + 1, 0, 1)
                   ELSE [v |-> 0, pow |-> 1, next |-> ip.next]
  IN  IF ip.pow = 1 /\ fp.pow = 1 THEN NaN
      ELSE Num((IF neg THEN -1 ELSE 1) * (ip.v * fp.pow + fp.v), fp.pow)

(***************************************************************************)
(* The handler's constants and pure steps.                                 *)
(***************************************************************************)
corsHeaders == {"Access-Control-Allow-Origin", "Access-Control-Allow-Headers"}

jsonHeaders == corsHeaders \cup {"Content-Type"}

monthNames ==
  <<"January", "February", "March", "April", "May", "June", "July",
    "August", "September", "October", "November", "December">>

\* The number of markers of one category the response keeps.
SliceLimit == 100

SecondsPerHour == 3600

\* A fetch result: the promise rejects, or resolves to a response with a status
\* and a body that parses as JSON or does not.
Rejected == [t |-> "reject"]
Reply(status, body) == [t |-> "response", status |-> status, body |-> body]
InvalidJson == [t |-> "invalid"]

\* Response.ok: the status is in the range 200-299.
Ok(reply) == reply.status \in 200..299

Array(a) == [t |-> "array", a |-> a]

\* new Response(JSON.stringify(body), { status, headers })
JsonResponse(status, body) ==
  [t |-> "response", status |-> status, headers |-> jsonHeaders, body |-> body]

\* A catch block that hands back what was computed so far.
CatchResponseWithPartialResult(message) ==
  JsonResponse(500, [error |-> message, details |-> "stack", obstacles |-> <<>>])

\* The catch block: the error's message, and its stack as details.
CatchResponse(message) ==
  JsonResponse(500, [error |-> message, details |-> "stack"])

\* The template without the provider's name.
ApiErrorMessageUnnamed(provider, status) == <<"Upstream", " API error: ", ToString(status)>>

\* The template `${provider} API error: ${status}`.
ApiErrorMessage(provider, status) == <<provider, " API error: ", ToString(status)>>

\* if (!postcode)
PostcodeMissing(postcode) == ~Truthy(postcode)

\* The candidate test with the length compared to 1 instead of 0.
NoCandidateOffByOne(nominatimData) ==
  \/ ~Truthy(nominatimData)
  \/ nominatimData.t = "array" /\ Len(nominatimData.a) <= 1

\* if (!nominatimData || nominatimData.length === 0)
NoCandidate(nominatimData) ==
  \/ ~Truthy(nominatimData)
  \/ nominatimData.t = "array" /\ Len(nominatimData.a) = 0

(***************************************************************************)
(* Obstacles: overpassData.elements?.forEach(...)                          *)
(***************************************************************************)
\* element.center?.lat and element.tags?.building: undefined under undefined.
CenterLat(element) == IF element.center.t = "object" THEN element.center.lat ELSE Undefined
CenterLon(element) == IF element.center.t = "object" THEN element.center.lon ELSE Undefined
Tag(element, key) == IF element.tags.t = "object" THEN element.tags[key] ELSE Undefined

elementLat(element) == Or(element.lat, CenterLat(element))
elementLon(element) == Or(element.lon, CenterLon(element))

TreeStr == Str(<<"t", "r", "e", "e">>)
PoleStr == Str(<<"p", "o", "l", "e">>)

\* The cascade with the tree test ahead of the building test.
CategoryTreeFirst(element) ==
  IF ~Truthy(elementLat(element)) \/ ~Truthy(elementLon(element)) THEN "none"
  ELSE IF Tag(element, "natural") = TreeStr THEN "trees"
  ELSE IF Truthy(Tag(element, "building")) THEN "buildings"
  ELSE IF Tag(element, "power") = PoleStr THEN "poles"
  ELSE "none"

\* The list an element is pushed to: "buildings", "trees", "poles" or "none".
Category(element) ==
  IF ~Truthy(elementLat(element)) \/ ~Truthy(elementLon(element)) THEN "none"
  ELSE IF Truthy(Tag(element, "building")) THEN "buildings"
  ELSE IF Tag(element, "natural") = TreeStr THEN "trees"
  ELSE IF Tag(element, "power") = PoleStr THEN "poles"
  ELSE "none"

Feature(element) == [lat |-> elementLat(element), lon |-> elementLon(element)]

\* One call of the forEach callback on the three lists.
Visit(lists, element) ==
  LET c == Category(element)
  IN  IF c = "none" THEN lists
      ELSE [lists EXCEPT ![c] = Append(@, Feature(element))]

\* The callback on the elements lo..hi in turn, starting from the lists so far.
\* The range is halved, and the lists of the first half are computed before
\* the second half is entered, so that the evaluation stays shallow; the visits
\* are made one after the other, in index order.
RECURSIVE ForEachElement(_, _, _, _)
ForEachElement(elements, lo, hi, lists) ==
  IF lo > hi THEN lists
  ELSE IF lo = hi THEN Visit(lists, elements[lo])
  ELSE LET mid == (lo + hi) \div 2
           first == ForEachElement(elements, lo, mid, lists)
       IN  IF DOMAIN first = DOMAIN lists
           THEN ForEachElement(elements, mid + 1, hi, first)
           ELSE first

NoObstacles == [buildings |-> <<>>, trees |-> <<>>, poles |-> <<>>]

ProcessObstacles(overpassData) ==
  IF overpassData.elements.t = "array"
  THEN ForEachElement(overpassData.elements.a, 1, Len(overpassData.elements.a), NoObstacles)
  ELSE NoObstacles

\* A slice that keeps the whole list.
SliceWithoutLimit(list) == SubSeq(list, 1, Len(list))

\* list.slice(0, 100)
Slice(list) == SubSeq(list, 1, IF Len(list) < SliceLimit THEN Len(list) ELSE SliceLimit)

(***************************************************************************)
(* Climate: weatherData.daily?.time?.forEach(...) and the averages.        *)
(***************************************************************************)
\* new Date(date).getMonth() of an ISO date "YYYY-MM-DD", the host clock in UTC.
GetMonth(date) == DigitVal(date.s[6]) * 10 + DigitVal(date.s[7]) - 1

EmptyBucket == [temp |-> <<>>, precip |-> <<>>, sun |-> <<>>]

\* if (value !== null) list.push(value)
PushUnlessNull(list, value) == IF value.t # "null" THEN Append(list, value) ELSE list

\* One call of the forEach callback: the day at a zero-based index.
VisitDay(monthlyData, daily, date, index) ==
  LET monthName == monthNames[GetMonth(date) + 1]
      md == IF monthName \in DOMAIN monthlyData THEN monthlyData
            ELSE monthlyData @@ (monthName :> EmptyBucket)
      temp == At(daily.temperature_2m_mean.a, index)
      precip == At(daily.precipitation_sum.a, index)
      sun == At(daily.sunshine_duration.a, index)
  IN  [md EXCEPT ![monthName] =
         [temp |-> PushUnlessNull(@.temp, temp),
          precip |-> PushUnlessNull(@.precip, precip),
          sun |-> IF sun.t # "null" THEN Append(@.sun, DivInt(sun, SecondsPerHour))
                  ELSE @.sun]]

RECURSIVE ForEachDay(_, _, _)
ForEachDay(daily, i, monthlyData) ==
  IF i > Len(daily.time.a) THEN monthlyData
  ELSE ForEachDay(daily, i + 1, VisitDay(monthlyData, daily, daily.time.a[i], i - 1))

\* Whether weatherData.daily?.time?.forEach calls its callback at all.
HasDays(weatherData) ==
  /\ weatherData.daily.t = "object"
  /\ weatherData.daily.time.t = "array"
  /\ Len(weatherData.daily.time.a) > 0

\* Indexing a field array that is undefined throws a TypeError in the first call.
BucketingThrows(weatherData) ==
  /\ HasDays(weatherData)
  /\ \E f \in {"temperature_2m_mean", "precipitation_sum", "sunshine_duration"} :
       weatherData.daily[f].t # "array"

Bucket(weatherData) ==
  IF HasDays(weatherData) THEN ForEachDay(weatherData.daily, 1, <<>>) ELSE <<>>

\* list.reduce((a, b) => a + b, 0)
RECURSIVE Reduce(_, _, _)
Reduce(list, i, acc) ==
  IF i > Len(list) THEN acc ELSE Reduce(list, i + 1, Add(acc, list[i]))

\* list.length > 0 ? sum / list.length : 0
Average(list) ==
  IF Len(list) > 0 THEN DivInt(Reduce(list, 1, Int2Num(0)), Len(list)) ELSE Int2Num(0)

MonthEntry(monthlyData, month) ==
  LET data == IF month \in DOMAIN monthlyData THEN monthlyData[month] ELSE EmptyBucket
  IN  [month |-> month,
       temperature_2m_mean |-> Average(data.temp),
       precipitation_sum |-> Average(data.precip),
       sunshine_duration |-> Average(data.sun)]

\* A map over the months that have a bucket only.
AveragesOfFilledMonths(monthlyData) ==
  LET filled == SelectSeq(monthNames, LAMBDA m : m \in DOMAIN monthlyData)
  IN  [k \in 1..Len(filled) |-> MonthEntry(monthlyData, filled[k])]

\* monthNames.map(month => ...)
Averages(monthlyData) ==
  [k \in 1..Len(monthNames) |-> MonthEntry(monthlyData, monthNames[k])]

(***************************************************************************)
(* The response.                                                           *)
(***************************************************************************)
\* The polygon of a bounding box read as [west, east, south, north].
FallbackBoundaryTransposed(boundingBox) ==
  LET b == boundingBox.a
  IN  [t |-> "object",
       type |-> "Feature",
       geometry |->
         [type |-> "Polygon",
          coordinates |->
            << << <<ParseFloat(b[1]), ParseFloat(b[3])>>,
                  <<ParseFloat(b[2]), ParseFloat(b[3])>>,
                  <<ParseFloat(b[2]), ParseFloat(b[4])>>,
                  <<ParseFloat(b[1]), ParseFloat(b[4])>>,
                  <<ParseFloat(b[1]), ParseFloat(b[3])>> >> >>]]

\* The polygon of the bounding box [south, north, west, east].
FallbackBoundary(boundingBox) ==
  LET b == boundingBox.a
  IN  [t |-> "object",
       type |-> "Feature",
       geometry |->
         [type |-> "Polygon",
          coordinates |->
            << << <<ParseFloat(b[3]), ParseFloat(b[1])>>,
                  <<ParseFloat(b[4]), ParseFloat(b[1])>>,
                  <<ParseFloat(b[4]), ParseFloat(b[2])>>,
                  <<ParseFloat(b[3]), ParseFloat(b[2])>>,
                  <<ParseFloat(b[3]), ParseFloat(b[1])>> >> >>]]

\* location.geojson || { ... }
Boundary(location) == Or(location.geojson, FallbackBoundary(location.boundingbox))

\* JSON.stringify of the weather entries.
JsonWeather(weather) ==
  [k \in DOMAIN weather |->
     [month |-> weather[k].month,
      temperature_2m_mean |-> JsonNumber(weather[k].temperature_2m_mean),
      precipitation_sum |-> JsonNumber(weather[k].precipitation_sum),
      sunshine_duration |-> JsonNumber(weather[k].sunshine_duration)]]

SuccessBody(location, lists, weather) ==
  [boundary |-> Boundary(location),
   obstacles |-> [buildings |-> Slice(lists.buildings),
                  trees |-> Slice(lists.trees),
                  poles |-> Slice(lists.poles)],
   weather |-> JsonWeather(weather)]

(***************************************************************************)
(* The inputs: requests and provider replies.                              *)
(***************************************************************************)
\* Request bodies: not JSON, or an object whose postcode is absent, null,
\* empty, blank or a postcode.
Postcodes ==
  {Undefined, Null, Str(<<>>), Str(<<" ">>), Str(<<" ", " ">>),
   Str(<<"S", "W", "1">>), Str(<<" ", "E", "1">>)}

RequestBodies == {InvalidJson} \cup {[t |-> "object", postcode |-> p] : p \in Postcodes}

\* The statuses of a provider that fails.
ErrorStatuses == {429, 503}

Polygon ==
  [t |-> "object", type |-> "Polygon",
   coordinates |-> << << <<Num(-1, 5), Num(103, 2)>>, <<Num(-1, 10), Num(103, 2)>>,
                         <<Num(-1, 10), Num(52, 1)>>, <<Num(-1, 5), Num(103, 2)>> >> >>]

\* Bounding boxes [south, north, west, east] as Nominatim's decimal strings.
BoundingBoxes ==
  {Array(<<Str(<<"5", "1", ".", "5">>), Str(<<"5", "1", ".", "7", "5">>),
           Str(<<"-", "0", ".", "2">>), Str(<<"-", "0", ".", "1">>)>>),
   Array(<<Str(<<"5", "3">>), Str(<<"5", "4">>),
           Str(<<"-", "2", ".", "5">>), Str(<<"1", ".", "2", "5">>)>>)}

Candidate(boundingbox, geojson) ==
  [t |-> "object", lat |-> boundingbox.a[1], lon |-> boundingbox.a[3],
   boundingbox |-> boundingbox, geojson |-> geojson]

Candidates == {Candidate(b, g) : b \in BoundingBoxes, g \in {Undefined, Polygon}}

FailedReplies == {Rejected} \cup {Reply(st, InvalidJson) : st \in ErrorStatuses}
                   \cup {Reply(200, InvalidJson)}

NominatimReplies ==
  FailedReplies \cup {Reply(200, Null), Reply(200, Array(<<>>))}
    \cup {Reply(200, Array(<<c>>)) : c \in Candidates}

(***************************************************************************)
(* Overpass elements.                                                      *)
(***************************************************************************)
Point(lat, lon) == [t |-> "object", lat |-> lat, lon |-> lon]

Tags(building, natural, power) ==
  [t |-> "object", building |-> building, natural |-> natural, power |-> power]

Element(lat, lon, center, tags) ==
  [t |-> "object", lat |-> lat, lon |-> lon, center |-> center, tags |-> tags]

YesStr == Str(<<"y", "e", "s">>)
WaterStr == Str(<<"w", "a", "t", "e", "r">>)

Elements ==
  <<Element(Int2Num(51), Int2Num(-1), Undefined, Tags(YesStr, Undefined, Undefined)),
    Element(Undefined, Undefined, Point(Int2Num(52), Int2Num(-2)),
            Tags(YesStr, Undefined, Undefined)),
    Element(Int2Num(53), Int2Num(-3), Undefined, Tags(Undefined, TreeStr, Undefined)),
    Element(Int2Num(54), Int2Num(-4), Undefined, Tags(Undefined, Undefined, PoleStr)),
    Element(Int2Num(55), Int2Num(-5), Undefined, Tags(YesStr, TreeStr, PoleStr)),
    Element(Int2Num(56), Int2Num(-6), Undefined, Tags(Undefined, TreeStr, PoleStr)),
    Element(Int2Num(57), Int2Num(-7), Undefined, Tags(Undefined, WaterStr, Undefined)),
    Element(Int2Num(58), Int2Num(-8), Undefined, Undefined),
    Element(Undefined, Undefined, Undefined, Tags(YesStr, Undefined, Undefined)),
    Element(Int2Num(51), Int2Num(0), Undefined, Tags(Undefined, TreeStr, Undefined)),
    Element(Undefined, Undefined, Point(Int2Num(0), Int2Num(30)),
            Tags(YesStr, Undefined, Undefined))>>

ElementKinds == {Elements[k] : k \in 1..Len(Elements)}

\* The longest element list of which every content is tried.
MaxElements == 2

\* How far beyond a multiple of the slice limit the long element lists go.
MaxOver == 1

ShortLists == UNION {[1..n -> ElementKinds] : n \in 0..MaxElements}

\* The list of length n that repeats a pattern.
Cycle(pattern, n) == [i \in 1..n |-> pattern[((i - 1) % Len(pattern)) + 1]]

LongPatterns ==
  {<<Elements[1]>>, <<Elements[3], Elements[1]>>, <<Elements[1], Elements[1], Elements[4]>>,
   <<Elements[2], Elements[3], Elements[6], Elements[7], Elements[5]>>,
   <<Elements[4], Elements[10], Elements[3]>>}

LongLengths == {m * SliceLimit + k : m \in 1..3, k \in (-1)..MaxOver}

LongLists == {Cycle(p, n) : p \in LongPatterns, n \in LongLengths}

OverpassData(elements) == [t |-> "object", elements |-> elements]

OverpassBodies(lists) == {OverpassData(Undefined)} \cup {OverpassData(Array(l)) : l \in lists}

(***************************************************************************)
(* Open-Meteo daily series.                                                *)
(***************************************************************************)
Dates ==
  {Str(<<"2", "0", "2", "1", "-", "0", "1", "-", "1", "5">>),
   Str(<<"2", "0", "2", "2", "-", "0", "1", "-", "0", "3">>),
   Str(<<"2", "0", "2", "2", "-", "1", "2", "-", "3", "1">>)}

\* What one day reports: temperature, precipitation, sunshine seconds.
Readings ==
  {<<Int2Num(5), Int2Num(2), Int2Num(3600)>>,
   <<Null, Int2Num(4), Int2Num(3600)>>,
   <<Int2Num(-3), Null, Int2Num(7200)>>,
   <<Num(11, 2), Int2Num(0), Null>>,
   <<Null, Null, Null>>}

Days == {[date |-> d, reading |-> r] : d \in Dates, r \in Readings}

\* The longest daily series.
MaxDays == 2

Series(maxDays) == UNION {[1..n -> Days] : n \in 0..maxDays}

\* How a field array falls short of the date index: it lacks its last entries
\* (a count), or is absent (-1).
Aligned == [temp |-> 0, precip |-> 0, sun |-> 0]

Shapes ==
  {Aligned, [temp |-> 1, precip |-> 1, sun |-> 1]}
    \cup {[Aligned EXCEPT ![f] = k] : f \in {"temp", "precip", "sun"}, k \in {-1, 1}}

FieldArray(series, column, lacking) ==
  IF lacking < 0 THEN Undefined
  ELSE Array([i \in 1..(IF Len(series) > lacking THEN Len(series) - lacking ELSE 0) |->
                series[i].reading[column]])

Daily(series, shape) ==
  [t |-> "object",
   time |-> Array([i \in 1..Len(series) |-> series[i].date]),
   temperature_2m_mean |-> FieldArray(series, 1, shape.temp),
   precipitation_sum |-> FieldArray(series, 2, shape.precip),
   sunshine_duration |-> FieldArray(series, 3, shape.sun)]

WeatherData(daily) == [t |-> "object", daily |-> daily]

WeatherBodies(series) ==
  {WeatherData(Undefined), WeatherData([Daily(<<>>, Aligned) EXCEPT !.time = Undefined])}
    \cup {WeatherData(Daily(s, sh)) : s \in series, sh \in Shapes}

(***************************************************************************)
(* The handler as a state machine: pc is the await the request is at.      *)
(***************************************************************************)
VARIABLES pc, req, calls, nominatimResponse, location, overpassResponse,
          overpassData, buildings, trees, poles, weatherResponse, weatherData,
          weather, response

vars == <<pc, req, calls, nominatimResponse, location, overpassResponse,
          overpassData, buildings, trees, poles, weatherResponse, weatherData,
          weather, response>>

\* The handler's locals are undefined until assigned.  calls lists the fetches
\* issued; a fetch that rejects is kept in the local it would have assigned.
Init ==
  /\ pc = "idle"
  /\ req = Undefined
  /\ calls = <<>>
  /\ nominatimResponse = Undefined
  /\ location = Undefined
  /\ overpassResponse = Undefined
  /\ overpassData = Undefined
  /\ buildings = <<>>
  /\ trees = <<>>
  /\ poles = <<>>
  /\ weatherResponse = Undefined
  /\ weatherData = Undefined
  /\ weather = <<>>
  /\ response = Undefined

\* return new Response(...), or the catch block's response.
Return(r) ==
  /\ response' = r
  /\ pc' = "done"

\* A fetch that is issued again when it is issued.
FetchWithRetry(provider, argument) ==
  calls' = Append(Append(calls, [provider |-> provider, argument |-> argument]),
                  [provider |-> provider, argument |-> argument])

Fetch(provider, argument) ==
  calls' = Append(calls, [provider |-> provider, argument |-> argument])

\* What the handler does with a fetch that rejects, a non-success status or a
\* body that is not JSON.
Fails(provider, reply) ==
  \/ /\ reply.t = "reject"
     /\ Return(CatchResponse(<<"error sending request">>))
  \/ /\ reply.t = "response"
     /\ ~Ok(reply)
     /\ Return(CatchResponse(ApiErrorMessage(provider, reply.status)))
  \/ /\ reply.t = "response"
     /\ Ok(reply)
     /\ reply.body.t = "invalid"
     /\ Return(CatchResponse(<<"Unexpected token">>))

\* The reply's JSON is there to be used.
Usable(reply) == reply.t = "response" /\ Ok(reply) /\ reply.body.t # "invalid"

\* if (req.method === 'OPTIONS')
Preflight ==
  /\ pc = "idle"
  /\ req' = [method |-> "OPTIONS", body |-> Undefined]
  /\ response' = [t |-> "response", status |-> 200, headers |-> corsHeaders, body |-> <<>>]
  /\ pc' = "done"
  /\ UNCHANGED <<calls, nominatimResponse, location, overpassResponse, overpassData,
                 buildings, trees, poles, weatherResponse, weatherData, weather>>

\* await req.json(), the postcode test and the Nominatim fetch.
Analyze(body) ==
  /\ pc = "idle"
  /\ req' = [method |-> "POST", body |-> body]
  /\ IF body.t = "invalid"
     THEN Return(CatchResponse(<<"Unexpected token">>)) /\ UNCHANGED calls
     ELSE IF PostcodeMissing(body.postcode)
     THEN Return(JsonResponse(400, [error |-> <<"Postcode is required">>])) /\ UNCHANGED calls
     ELSE /\ Fetch("Nominatim", body.postcode)
          /\ pc' = "nominatim"
          /\ UNCHANGED response
  /\ UNCHANGED <<nominatimResponse, location, overpassResponse, overpassData,
                 buildings, trees, poles, weatherResponse, weatherData, weather>>

\* The Nominatim fetch settles: the candidate test and the Overpass fetch.
NominatimReturns(reply) ==
  /\ pc = "nominatim"
  /\ nominatimResponse' = reply
  /\ \/ Fails("Nominatim", reply) /\ UNCHANGED <<calls, location>>
     \/ /\ Usable(reply)
        /\ IF NoCandidate(reply.body)
           THEN /\ Return(JsonResponse(404, [error |-> <<"Postcode not found">>]))
                /\ UNCHANGED <<calls, location>>
           ELSE /\ location' = reply.body.a[1]
                /\ Fetch("Overpass", reply.body.a[1].boundingbox)
                /\ pc' = "overpass"
                /\ UNCHANGED response
  /\ UNCHANGED <<req, overpassResponse, overpassData, buildings, trees, poles,
                 weatherResponse, weatherData, weather>>

\* The Overpass fetch settles: the classification and the Open-Meteo fetch.
OverpassReturns(reply) ==
  /\ pc = "overpass"
  /\ overpassResponse' = reply
  /\ \/ Fails("Overpass", reply) /\ UNCHANGED <<calls, overpassData, buildings, trees, poles>>
     \/ /\ Usable(reply)
        /\ overpassData' = reply.body
        /\ LET lists == ProcessObstacles(reply.body)
           IN  /\ buildings' = lists.buildings
               /\ trees' = lists.trees
               /\ poles' = lists.poles
        /\ Fetch("Open-Meteo", <<ParseFloat(location.lat), ParseFloat(location.lon)>>)
        /\ pc' = "open-meteo"
        /\ UNCHANGED response
  /\ UNCHANGED <<req, nominatimResponse, location, weatherResponse, weatherData, weather>>

\* The Open-Meteo fetch settles: the monthly averages and the response.
OpenMeteoReturns(reply) ==
  /\ pc = "open-meteo"
  /\ weatherResponse' = reply
  /\ \/ Fails("Open-Meteo", reply) /\ UNCHANGED <<weatherData, weather>>
     \/ /\ Usable(reply)
        /\ weatherData' = reply.body
        /\ IF BucketingThrows(reply.body)
           THEN /\ Return(CatchResponse(<<"Cannot read properties of undefined">>))
                /\ UNCHANGED weather
           ELSE /\ weather' = Averages(Bucket(reply.body))
                /\ Return(JsonResponse(200,
                     SuccessBody(location,
                                 [buildings |-> buildings, trees |-> trees, poles |-> poles],
                                 Averages(Bucket(reply.body)))))
  /\ UNCHANGED <<req, calls, nominatimResponse, location, overpassResponse, overpassData,
                 buildings, trees, poles>>

(***************************************************************************)
(* The specifications.  Spec runs the handler on every request and every   *)
(* kind of reply of each provider; SpecObstacles and SpecClimate run it on *)
(* one request and widen the replies of one provider.                      *)
(***************************************************************************)
Replies(bodies) == FailedReplies \cup {Reply(200, b) : b \in bodies}

SomeDay == [date |-> CHOOSE d \in Dates : GetMonth(d) = 11,
            reading |-> <<Int2Num(5), Int2Num(2), Int2Num(3600)>>]

OtherDay == [date |-> CHOOSE d \in Dates : GetMonth(d) = 0,
             reading |-> <<Null, Int2Num(4), Int2Num(3600)>>]

FewLists ==
  {<<>>, Cycle(<<Elements[3], Elements[1]>>, SliceLimit + SliceLimit + 1)}
    \cup {<<e>> : e \in ElementKinds}

FewSeries == {<<>>, <<SomeDay>>, <<OtherDay, SomeDay>>}

Next ==
  \/ Preflight
  \/ \E body \in RequestBodies : Analyze(body)
  \/ \E reply \in NominatimReplies : NominatimReturns(reply)
  \/ \E reply \in Replies(OverpassBodies(FewLists)) : OverpassReturns(reply)
  \/ \E reply \in Replies(WeatherBodies(FewSeries)) : OpenMeteoReturns(reply)

Spec == Init /\ [][Next]_vars

OneRequest == [t |-> "object", postcode |-> Str(<<"S", "W", "1">>)]

OneCandidate == Candidate(CHOOSE b \in BoundingBoxes : TRUE, Undefined)

NextObstacles ==
  \/ Analyze(OneRequest)
  \/ NominatimReturns(Reply(200, Array(<<OneCandidate>>)))
  \/ \E reply \in Replies(OverpassBodies(ShortLists \cup LongLists)) : OverpassReturns(reply)
  \/ OpenMeteoReturns(Reply(200, WeatherData(Daily(<<SomeDay>>, Aligned))))

SpecObstacles == Init /\ [][NextObstacles]_vars

NextClimate ==
  \/ Analyze(OneRequest)
  \/ NominatimReturns(Reply(200, Array(<<OneCandidate>>)))
  \/ OverpassReturns(Reply(200, OverpassData(Array(<<Elements[1]>>))))
  \/ \E reply \in Replies(WeatherBodies(Series(MaxDays))) : OpenMeteoReturns(reply)

SpecClimate == Init /\ [][NextClimate]_vars

(***************************************************************************)
(* The claims.                                                             *)
(***************************************************************************)
Posted == pc # "idle" /\ req.method = "POST"

Answered == pc = "done"

Called(provider) == \E i \in 1..Len(calls) : calls[i].provider = provider

\* string.trim(), as the form applies it before it submits a postcode.
RECURSIVE TrimStart(_)
TrimStart(chars) ==
  IF chars # <<>> /\ Head(chars) = " " THEN TrimStart(Tail(chars)) ELSE chars

RECURSIVE TrimEnd(_)
TrimEnd(chars) ==
  IF chars # <<>> /\ chars[Len(chars)] = " "
  THEN TrimEnd(SubSeq(chars, 1, Len(chars) - 1)) ELSE chars

Trim(chars) == TrimEnd(TrimStart(chars))

\* The postcode is missing, or blank after trimming.
BlankPostcode(postcode) ==
  \/ postcode.t \in {"undefined", "null"}
  \/ postcode.t = "str" /\ Trim(postcode.s) = <<>>

\* C1: a request whose postcode is missing or blank after trimming is answered
\* 400 with an error message, and no provider is called for it.
C1_BlankPostcodeIs400 ==
  (Posted /\ req.body.t = "object" /\ BlankPostcode(req.body.postcode))
    => /\ calls = <<>>
       /\ Answered
       /\ response.status = 400
       /\ "error" \in DOMAIN response.body

\* The geocoder answered successfully with zero candidates.
ZeroCandidates ==
  /\ nominatimResponse.t = "response"
  /\ nominatimResponse.status \in 200..299
  /\ \/ nominatimResponse.body.t = "null"
     \/ nominatimResponse.body.t = "array" /\ nominatimResponse.body.a = <<>>

\* C2: the answer is 404 exactly when the geocoder answered successfully with
\* zero candidates; then neither Overpass nor Open-Meteo is called; a geocoder
\* that rejects or answers a non-success status never gives 404.
C2_NotFoundIffZeroCandidates ==
  /\ Answered => (response.status = 404 <=> ZeroCandidates)
  /\ ZeroCandidates => ~Called("Overpass") /\ ~Called("Open-Meteo")
  /\ (Answered /\ nominatimResponse.t = "reject") => response.status # 404
  /\ (Answered /\ nominatimResponse.t = "response"
        /\ nominatimResponse.status \notin 200..299) => response.status # 404

C2_Witness ==
  /\ Answered
  /\ response.status = 404
  /\ ZeroCandidates
  /\ Len(calls) = 1

\* The provider answered with a non-success status.
NonSuccess(reply) == reply.t = "response" /\ reply.status \notin 200..299

\* The answer is 500 and its message names the provider and the status.
Names500(provider, reply) ==
  /\ Answered
  /\ response.status = 500
  /\ "error" \in DOMAIN response.body
  /\ Len(response.body.error) = 3
  /\ response.body.error[1] = provider
  /\ response.body.error[3] = ToString(reply.status)

\* C3: a provider that answers a non-success status ends the request with a 500
\* whose message names that provider and the status, and no provider of a later
\* stage is called.
C3_UpstreamErrorIs500 ==
  /\ NonSuccess(nominatimResponse) =>
       /\ Names500("Nominatim", nominatimResponse)
       /\ ~Called("Overpass") /\ ~Called("Open-Meteo")
  /\ NonSuccess(overpassResponse) =>
       /\ Names500("Overpass", overpassResponse)
       /\ ~Called("Open-Meteo")
  /\ NonSuccess(weatherResponse) => Names500("Open-Meteo", weatherResponse)

C3_Witness ==
  /\ Answered
  /\ NonSuccess(overpassResponse)
  /\ overpassResponse.status = 503
  /\ response.status = 500
  /\ Len(calls) = 2

ResultFields == {"boundary", "obstacles", "weather"}

AllProvidersSucceeded ==
  /\ Called("Nominatim") /\ Called("Overpass") /\ Called("Open-Meteo")
  /\ nominatimResponse.t = "response" /\ nominatimResponse.status \in 200..299
  /\ overpassResponse.t = "response" /\ overpassResponse.status \in 200..299
  /\ weatherResponse.t = "response" /\ weatherResponse.status \in 200..299

\* C4: an answer that carries any of boundary, obstacles, weather carries all
\* three and follows three successful provider calls; a 400, 404 or 500 answer
\* carries error, possibly details, and nothing else.
C4_AllOrNothing ==
  Answered =>
    /\ (DOMAIN response.body \cap ResultFields # {}) =>
         /\ ResultFields \subseteq DOMAIN response.body
         /\ AllProvidersSucceeded
    /\ response.status \in {400, 404, 500} =>
         /\ "error" \in DOMAIN response.body
         /\ DOMAIN response.body \subseteq {"error", "details"}

C4_Witness ==
  /\ Answered
  /\ response.status = 200
  /\ DOMAIN response.body = ResultFields
  /\ Len(response.body.obstacles.buildings) > 0

C4_WitnessError ==
  /\ Answered
  /\ response.status = 500
  /\ weatherResponse.t = "reject"
  /\ Len(buildings) > 0

\* The elements Overpass emitted, in its order.
Emitted ==
  IF overpassData.t = "object" /\ overpassData.elements.t = "array"
  THEN overpassData.elements.a ELSE <<>>

HasTag(element, key) == element.tags.t = "object" /\ element.tags[key].t = "str"

HasTagValue(element, key, value) == HasTag(element, key) /\ element.tags[key] = value

\* The rule list of the claim, on the tags alone: the first match wins.
Rule(element) ==
  CASE HasTag(element, "building") -> "buildings"
    [] HasTagValue(element, "natural", TreeStr) -> "trees"
    [] HasTagValue(element, "power", PoleStr) -> "poles"
    [] OTHER -> "none"

\* The handler found a latitude and a longitude for the element.
Located(element) == Truthy(elementLat(element)) /\ Truthy(elementLon(element))

InCategory(category, element) == Rule(element) = category /\ Located(element)

\* The features of the emitted elements of a category, in emission order.
Classified(category) ==
  LET chosen == SelectSeq(Emitted, LAMBDA e : InCategory(category, e))
  IN  [i \in 1..Len(chosen) |-> Feature(chosen[i])]

Classifying == pc \in {"open-meteo", "done"} /\ overpassData.t = "object"

\* C5: classification is an exclusive, ordered rule list: each list holds
\* exactly the located elements whose first matching rule is its category, so
\* an element with a building tag goes to buildings only, each element gives at
\* most one feature and none appears in two lists.
C5_FirstMatchWins ==
  Classifying =>
    /\ buildings = Classified("buildings")
    /\ trees = Classified("trees")
    /\ poles = Classified("poles")
    /\ Len(buildings) + Len(trees) + Len(poles) <= Len(Emitted)

C5_Witness ==
  /\ Classifying
  /\ \E i \in 1..Len(Emitted) :
       /\ HasTag(Emitted[i], "building")
       /\ HasTagValue(Emitted[i], "natural", TreeStr)
       /\ HasTagValue(Emitted[i], "power", PoleStr)
       /\ Located(Emitted[i])
  /\ Len(buildings) = 1
  /\ trees = <<>>
  /\ poles = <<>>

\* The first n entries of a list, or all of it.
FirstN(list, n) == [i \in 1..(IF Len(list) < n THEN Len(list) ELSE n) |-> list[i]]

Succeeded == Answered /\ response.status = 200 /\ req.method = "POST"

\* C6: each returned list has at most 100 entries and is the first 100 (or all)
\* of the elements classified into its category, in emission order, whatever
\* the other categories hold.
C6_FirstHundredEach ==
  Succeeded =>
    \A c \in {"buildings", "trees", "poles"} :
      /\ Len(response.body.obstacles[c]) <= 100
      /\ response.body.obstacles[c] = FirstN(Classified(c), 100)

C6_Witness ==
  /\ Succeeded
  /\ Len(buildings) > 100
  /\ Len(response.body.obstacles.buildings) = 100
  /\ Len(poles) \in 1..99
  /\ response.body.obstacles.poles = poles

\* The date index Open-Meteo returned.
TimeIndex ==
  IF weatherData.t = "object" /\ weatherData.daily.t = "object"
       /\ weatherData.daily.time.t = "array"
  THEN weatherData.daily.time.a ELSE <<>>

Calendar ==
  <<"January", "February", "March", "April", "May", "June", "July",
    "August", "September", "October", "November", "December">>

\* C7: whatever the daily series (any order of days, any years, none at all),
\* the weather of a success answer has 12 entries, January to December in
\* calendar order.
C7_TwelveMonthsInOrder ==
  Succeeded =>
    /\ Len(response.body.weather) = 12
    /\ \A k \in 1..12 : response.body.weather[k].month = Calendar[k]

C7_Witness ==
  /\ Succeeded
  /\ Len(TimeIndex) = 2
  /\ GetMonth(TimeIndex[1]) > GetMonth(TimeIndex[2])
  /\ Len(response.body.weather) = 12

C7_WitnessEmpty ==
  /\ Succeeded
  /\ TimeIndex = <<>>
  /\ Len(response.body.weather) = 12

\* The entries of a field array, none when the array is absent.
FieldEntries(field) ==
  IF weatherData.t = "object" /\ weatherData.daily.t = "object"
       /\ weatherData.daily[field].t = "array"
  THEN weatherData.daily[field].a ELSE <<>>

\* The days of a calendar month (1..12) that have a non-null value of the field.
DaysWithValue(month, field) ==
  {i \in 1..Len(TimeIndex) :
     /\ GetMonth(TimeIndex[i]) + 1 = month
     /\ i <= Len(FieldEntries(field))
     /\ FieldEntries(field)[i].t = "num"}

RECURSIVE Total(_, _)
Total(days, field) ==
  IF days = {} THEN Int2Num(0)
  ELSE LET i == CHOOSE d \in days : TRUE
       IN  Add(FieldEntries(field)[i], Total(days \ {i}, field))

\* The arithmetic mean of those values, in the unit of the answer; 0 without any.
Mean(month, field) ==
  LET days == DaysWithValue(month, field)
      unit == IF field = "sunshine_duration" THEN 3600 ELSE 1
  IN  IF days = {} THEN Int2Num(0)
      ELSE DivInt(Total(days, field), Cardinality(days) * unit)

MeansReturned ==
  \A month \in 1..12 :
    \A field \in {"temperature_2m_mean", "precipitation_sum", "sunshine_duration"} :
      response.body.weather[month][field] = Mean(month, field)

\* C8: each month's value of each field is the mean of the non-null values of
\* that field over the month's days of all years (sunshine in hours), and 0
\* when there is none.
C8_MonthlyMeans == Succeeded => MeansReturned

\* Some day of the date index has no entry in some field array.
Ragged ==
  /\ weatherResponse.t = "response"
  /\ weatherData.t = "object"
  /\ \E field \in {"temperature_2m_mean", "precipitation_sum", "sunshine_duration"} :
       Len(FieldEntries(field)) < Len(TimeIndex)

\* C9: a day without an entry in a field array is tolerated: the request
\* succeeds and the averages are the means of the values that are present.
C9_MissingEntriesTolerated ==
  (Answered /\ Ragged) => (Succeeded /\ MeansReturned)

\* The boundary of the answer and the outer ring of a synthesized one.
ReturnedBoundary == response.body.boundary

Ring == ReturnedBoundary.geometry.coordinates[1]

\* The numbers of the candidate's bounding box [south, north, west, east].
South == ParseFloat(location.boundingbox.a[1])
North == ParseFloat(location.boundingbox.a[2])
West == ParseFloat(location.boundingbox.a[3])
East == ParseFloat(location.boundingbox.a[4])

\* C10: a success answer carries a boundary: the candidate's geometry when it
\* has one, otherwise the polygon of the bounding box, 5 pairs in the order
\* (west,south), (east,south), (east,north), (west,north), (west,south), closed
\* and of the extent of the bounding box.
C10_BoundaryOrBoundingBox ==
  Succeeded =>
    /\ "boundary" \in DOMAIN response.body
    /\ IF location.geojson.t = "object"
       THEN ReturnedBoundary = location.geojson
       ELSE /\ ReturnedBoundary.geometry.type = "Polygon"
            /\ Len(ReturnedBoundary.geometry.coordinates) = 1
            /\ Ring = << <<West, South>>, <<East, South>>, <<East, North>>,
                         <<West, North>>, <<West, South>> >>
            /\ Len(Ring) = 5
            /\ Ring[1] = Ring[5]
            /\ \A i \in 1..5 : Leq(West, Ring[i][1]) /\ Leq(Ring[i][1], East)
            /\ \A i \in 1..5 : Leq(South, Ring[i][2]) /\ Leq(Ring[i][2], North)
            /\ {Ring[i][1] : i \in 1..5} = {West, East}
            /\ {Ring[i][2] : i \in 1..5} = {South, North}

\* The bounding box ["51.5", "51.75", "-0.2", "-0.1"] without a geometry.
C10_Witness ==
  /\ Succeeded
  /\ location.geojson.t = "undefined"
  /\ ReturnedBoundary.type = "Feature"
  /\ Ring[1] = <<Num(-1, 5), Num(103, 2)>>
  /\ Ring[3] = <<Num(-1, 10), Num(207, 4)>>

C10_WitnessGeometry ==
  /\ Succeeded
  /\ location.geojson.t = "object"
  /\ ReturnedBoundary.type = "Polygon"

\* The providers in the order their fetches were issued.
ProvidersCalled == [i \in 1..Len(calls) |-> calls[i].provider]

StageOrder == <<"Nominatim", "Overpass", "Open-Meteo">>

\* The fetch rejected or was answered with a non-success status.
Failed(reply) == reply.t = "reject" \/ NonSuccess(reply)

Succeeds(reply) == reply.t = "response" /\ reply.status \in 200..299

\* C11: within a request the fetches go Nominatim, Overpass, Open-Meteo, each
\* at most once and none after a failure; a later provider is called only after
\* the earlier one succeeded, and the answer is assembled only after the
\* obstacle and the climate stage both completed.
C11_StagesInOrderOnce ==
  /\ Len(calls) <= 3
  /\ ProvidersCalled = SubSeq(StageOrder, 1, Len(calls))
  /\ Called("Overpass") => Succeeds(nominatimResponse) /\ ~ZeroCandidates
  /\ Called("Open-Meteo") => Succeeds(overpassResponse) /\ overpassData.t = "object"
  /\ Failed(nominatimResponse) => Answered /\ Len(calls) = 1
  /\ Failed(overpassResponse) => Answered /\ Len(calls) = 2
  /\ Failed(weatherResponse) => Answered /\ Len(calls) = 3
  /\ Succeeded =>
       /\ ProvidersCalled = StageOrder
       /\ Succeeds(overpassResponse) /\ overpassData.t = "object"
       /\ Succeeds(weatherResponse) /\ weatherData.t = "object"
       /\ Len(weather) = 12

C11_Witness ==
  /\ Succeeded
  /\ ProvidersCalled = StageOrder
  /\ Len(buildings) > 0
  /\ Len(TimeIndex) > 0

C11_WitnessFailure ==
  /\ Answered
  /\ overpassResponse.t = "reject"
  /\ ProvidersCalled = <<"Nominatim", "Overpass">>

\* The element carries a latitude and a longitude of its own, or of a center.
HasPoint(element) == element.lat.t = "num" /\ element.lon.t = "num"

HasCenter(element) ==
  /\ element.center.t = "object"
  /\ element.center.lat.t = "num"
  /\ element.center.lon.t = "num"

\* The coordinates of the claim: the direct point's when there is one, the
\* center's otherwise.
Resolved(element) ==
  IF HasPoint(element) THEN [lat |-> element.lat, lon |-> element.lon]
  ELSE [lat |-> element.center.lat, lon |-> element.center.lon]

\* The features of the emitted elements that match a category's rule and carry
\* coordinates of any numeric value, in emission order.
ClassifiedResolvable(category) ==
  LET chosen == SelectSeq(Emitted,
                          LAMBDA e : Rule(e) = category /\ (HasPoint(e) \/ HasCenter(e)))
  IN  [i \in 1..Len(chosen) |-> Resolved(chosen[i])]

\* C12: an element is dropped for lack of coordinates only when it has neither
\* a direct nor a center latitude/longitude: every element with numeric
\* coordinates, zero included, that matches a rule is in its category's list,
\* with the direct point's coordinates when it has one, the center's otherwise.
C12_ZeroCoordinatesKept ==
  Classifying =>
    /\ buildings = ClassifiedResolvable("buildings")
    /\ trees = ClassifiedResolvable("trees")
    /\ poles = ClassifiedResolvable("poles")

\* A tree on the Greenwich meridian was emitted and the list of trees is empty.
C12_Reached ==
  /\ Classifying
  /\ \E i \in 1..Len(Emitted) :
       /\ HasPoint(Emitted[i])
       /\ Emitted[i].lon.n = 0
       /\ Rule(Emitted[i]) = "trees"
  /\ trees = <<>>

====
